---- MODULE Spec2Model ----
(***************************************************************************)
(* Model of src/src/embedding.rs: the EmbeddingGenerator handle, its       *)
(* bounded request queue (mpsc::sync_channel), the worker thread running   *)
(* EmbeddingGenerator::runner, and the per-request oneshot reply channel   *)
(* used by EmbeddingGenerator::generate_embeddings.                        *)
(***************************************************************************)
EXTENDS Integers, Sequences, FiniteSets, TLC

\* ---------------------------------------------------------------- bounds
\* number of generate_embeddings calls made in one run
MaxReq == 3
\* capacity of the request queue (sync_channel(100) in the source, scaled)
QueueCapacity == 2
\* longest models_to_load vector passed to new()
MaxModels == 2
\* dimensionality of one embedding vector (384 for the real model, scaled)
Dim == 2

Requests == 1..MaxReq

\* ------------------------------------------------------- data of the model
AllMiniLmL12V2 == "AllMiniLmL12V2"
OtherKind == "OtherKind"
ModelKinds == {AllMiniLmL12V2, OtherKind}

RegisteredName == "all-minilm-l12-v2"
\* the (texts, model) pairs a caller may pass to generate_embeddings
ArgChoices ==
  { [model |-> RegisteredName, texts |-> <<"Hello, world!", "Hello, NBA!">>],
    [model |-> RegisteredName, texts |-> <<"<unencodable>">>],
    [model |-> "no-such-model", texts |-> <<"Hello, NBA!">>] }

RECURSIVE SeqsUpTo(_, _)
SeqsUpTo(S, n) ==
  IF n = 0 THEN {<<>>}
  ELSE LET shorter == SeqsUpTo(S, n - 1)
       IN shorter \cup {Append(s, x) : s \in {t \in shorter : Len(t) = n - 1}, x \in S}

ConfigChoices == SeqsUpTo(ModelKinds, MaxModels)

\* Result<Vec<Vec<f32>>, EmbeddingGeneratorError>, and the unit result of runner
None == [tag |-> "None", msg |-> "", vecs |-> <<>>]
OkVecs(v) == [tag |-> "Ok", msg |-> "", vecs |-> v]
OkUnit == [tag |-> "Ok", msg |-> "", vecs |-> <<>>]
ModelNotFound(name) == [tag |-> "ModelNotFound", msg |-> name, vecs |-> <<>>]
ModelError(detail) == [tag |-> "ModelError", msg |-> detail, vecs |-> <<>>]
ModelLoadingError(detail) == [tag |-> "ModelLoadingError", msg |-> detail, vecs |-> <<>>]
InternalError(detail) == [tag |-> "InternalError", msg |-> detail, vecs |-> <<>>]

\* (model_name, inputs, oneshot sender); the sender is named by its request
Message(model, texts, r) == [model_name |-> model, inputs |-> texts, sender |-> r]
NoMsg == [model_name |-> "", inputs |-> <<>>, sender |-> 0]

\* the external encode capability: one vector per input, in input order
TextCode(t) ==
  CASE t = "Hello, world!" -> 1
    [] t = "Hello, NBA!" -> 2
    [] OTHER -> 0

Embed(t) == [j \in 1..Dim |-> TextCode(t) * 10 + j]

EncodeFails(inputs) == \E i \in 1..Len(inputs) : inputs[i] = "<unencodable>"

Encode(inputs) ==
  IF EncodeFails(inputs)
  THEN ModelError("encode failed")
  ELSE OkVecs([i \in 1..Len(inputs) |-> Embed(inputs[i])])

\* ------------------------------------------------------------------ state
VARIABLES
  newResult,       \* what new() returned: "None" before the call, then "Ok"
  models_to_load,  \* the vector handed to runner
  loadIdx,         \* position of the loading loop in models_to_load
  models,          \* HashMap as a set of <<name, model>>; a model is named by its config index
  workerPc,        \* position of the worker thread
  runnerResult,    \* what runner returned (None while it runs)
  queue,           \* content of the sync_channel
  receiverAlive,   \* the mpsc Receiver has not been dropped
  handleAlive,     \* the EmbeddingGenerator (the only SyncSender) is alive
  cur,             \* the message the worker is processing
  result,          \* the local `result` of runner
  inEncode,        \* requests whose encode call is executing
  pc,              \* per call: idle, sending, awaiting, done, abandoned
  args,            \* per call: the (model, texts) it was called with
  slot,            \* per call: the value held by its oneshot channel
  txAlive,         \* per call: its oneshot Sender exists
  rxAlive,         \* per call: its oneshot Receiver exists
  ret,             \* per call: what generate_embeddings returned
  enqOrder,        \* history: requests in the order they entered the queue
  served,          \* history: requests in the order the worker dequeued them
  encodeCalls,     \* history: requests for which encode was invoked
  replies,         \* history: per call, the values the worker sent to it
  enqPhase         \* history: per call, whether it was enqueued during Loading or after

vars == <<newResult, models_to_load, loadIdx, models, workerPc, runnerResult,
          queue, receiverAlive, handleAlive, cur, result, inEncode, pc, args,
          slot, txAlive, rxAlive, ret, enqOrder, served, encodeCalls, replies,
          enqPhase>>

workerVars == <<models_to_load, loadIdx, models, workerPc, runnerResult, cur, result, inEncode>>
callerVars == <<pc, args, rxAlive, ret>>
histVars == <<enqOrder, served, encodeCalls, replies, enqPhase>>

NoArgs == [model |-> "", texts |-> <<>>]

Init ==
  /\ newResult = "None"
  /\ models_to_load = <<>>
  /\ loadIdx = 1
  /\ models = {}
  /\ workerPc = "NotSpawned"
  /\ runnerResult = None
  /\ queue = <<>>
  /\ receiverAlive = FALSE
  /\ handleAlive = FALSE
  /\ cur = NoMsg
  /\ result = None
  /\ inEncode = {}
  /\ pc = [r \in Requests |-> "idle"]
  /\ args = [r \in Requests |-> NoArgs]
  /\ slot = [r \in Requests |-> None]
  /\ txAlive = [r \in Requests |-> FALSE]
  /\ rxAlive = [r \in Requests |-> FALSE]
  /\ ret = [r \in Requests |-> None]
  /\ enqOrder = <<>>
  /\ served = <<>>
  /\ encodeCalls = <<>>
  /\ replies = [r \in Requests |-> <<>>]
  /\ enqPhase = [r \in Requests |-> ""]

\* ------------------------------------------------------- HashMap helpers
Keys(m) == {e[1] : e \in m}
Get(m, name) == {e \in m : e[1] = name}
Insert(m, name, model) == {e \in m : e[1] # name} \cup {<<name, model>>}

\* ------------------------------------------------------------ construction
\* new(): creates the channel, spawns the worker thread, returns Ok(handle)
New(cfg) ==
  /\ workerPc = "NotSpawned"
  /\ models_to_load' = cfg
  /\ loadIdx' = 1
  /\ workerPc' = "Loading"
  /\ receiverAlive' = TRUE
  /\ handleAlive' = TRUE
  /\ newResult' = "Ok"
  /\ UNCHANGED <<models, runnerResult, queue, cur, result, inEncode, txAlive, slot>>
  /\ UNCHANGED callerVars
  /\ UNCHANGED histVars

\* variant of RunnerExit: the Receiver outlives runner, the queue is not dropped
RunnerExit_KeepQueue(res) ==
  /\ workerPc' = IF res.tag = "Ok" THEN "Terminated" ELSE "Failed"
  /\ runnerResult' = res
  /\ receiverAlive' = FALSE
  /\ queue' = queue
  /\ txAlive' = txAlive

\* runner returns: its locals (the registry and the Receiver) are dropped, and
\* with the Receiver every queued message and the oneshot Sender inside it
RunnerExit(res) ==
  /\ workerPc' = IF res.tag = "Ok" THEN "Terminated" ELSE "Failed"
  /\ runnerResult' = res
  /\ receiverAlive' = FALSE
  /\ queue' = <<>>
  /\ txAlive' = [r \in Requests |->
                   IF \E i \in 1..Len(queue) : queue[i].sender = r THEN FALSE ELSE txAlive[r]]

\* ----------------------------------------------------------------- Loading
\* one iteration of the loading loop, AllMiniLmL12V2 arm, create_model succeeds
LoadModelOk ==
  /\ workerPc = "Loading"
  /\ loadIdx <= Len(models_to_load)
  /\ models_to_load[loadIdx] = AllMiniLmL12V2
  /\ models' = Insert(models, RegisteredName, loadIdx)
  /\ loadIdx' = loadIdx + 1
  /\ UNCHANGED <<newResult, models_to_load, workerPc, runnerResult, queue, receiverAlive,
                 handleAlive, cur, result, inEncode, slot, txAlive>>
  /\ UNCHANGED callerVars
  /\ UNCHANGED histVars

\* AllMiniLmL12V2 arm, create_model fails: `?` returns ModelLoadingError
LoadModelFail ==
  /\ workerPc = "Loading"
  /\ loadIdx <= Len(models_to_load)
  /\ models_to_load[loadIdx] = AllMiniLmL12V2
  /\ RunnerExit(ModelLoadingError("create_model failed"))
  /\ UNCHANGED <<newResult, models_to_load, loadIdx, models, handleAlive, cur, result,
                 inEncode, slot>>
  /\ UNCHANGED callerVars
  /\ UNCHANGED histVars

\* variant of LoadUnknownKind: the `_` arm skips the entry instead of returning
LoadUnknownKind_Skip ==
  /\ workerPc = "Loading"
  /\ loadIdx <= Len(models_to_load)
  /\ models_to_load[loadIdx] # AllMiniLmL12V2
  /\ loadIdx' = loadIdx + 1
  /\ UNCHANGED <<newResult, models_to_load, models, workerPc, runnerResult, queue,
                 receiverAlive, handleAlive, cur, result, inEncode, slot, txAlive>>
  /\ UNCHANGED callerVars
  /\ UNCHANGED histVars

\* the `_` arm: any other model kind
LoadUnknownKind ==
  /\ workerPc = "Loading"
  /\ loadIdx <= Len(models_to_load)
  /\ models_to_load[loadIdx] # AllMiniLmL12V2
  /\ RunnerExit(InternalError("unknown model kind"))
  /\ UNCHANGED <<newResult, models_to_load, loadIdx, models, handleAlive, cur, result,
                 inEncode, slot>>
  /\ UNCHANGED callerVars
  /\ UNCHANGED histVars

\* variant of LoadDone: the worker starts serving without waiting for the
\* loading loop to end
LoadDone_Early ==
  /\ workerPc = "Loading"
  /\ workerPc' = "Serving"
  /\ UNCHANGED <<newResult, models_to_load, loadIdx, models, runnerResult, queue,
                 receiverAlive, handleAlive, cur, result, inEncode, slot, txAlive>>
  /\ UNCHANGED callerVars
  /\ UNCHANGED histVars

\* the loading loop is exhausted: the worker enters receiver.iter()
LoadDone ==
  /\ workerPc = "Loading"
  /\ loadIdx > Len(models_to_load)
  /\ workerPc' = "Serving"
  /\ UNCHANGED <<newResult, models_to_load, loadIdx, models, runnerResult, queue,
                 receiverAlive, handleAlive, cur, result, inEncode, slot, txAlive>>
  /\ UNCHANGED callerVars
  /\ UNCHANGED histVars

\* ----------------------------------------------------------------- Serving
\* variant of Recv: the newest queued message is taken first
Recv_Lifo ==
  /\ workerPc = "Serving"
  /\ queue # <<>>
  /\ cur' = queue[Len(queue)]
  /\ queue' = SubSeq(queue, 1, Len(queue) - 1)
  /\ served' = Append(served, queue[Len(queue)].sender)
  /\ workerPc' = "Lookup"
  /\ UNCHANGED <<newResult, models_to_load, loadIdx, models, runnerResult, receiverAlive,
                 handleAlive, result, inEncode, slot, txAlive>>
  /\ UNCHANGED callerVars
  /\ UNCHANGED <<enqOrder, encodeCalls, replies, enqPhase>>

\* receiver.iter() yields the oldest queued message
Recv ==
  /\ workerPc = "Serving"
  /\ queue # <<>>
  /\ cur' = Head(queue)
  /\ queue' = Tail(queue)
  /\ served' = Append(served, Head(queue).sender)
  /\ workerPc' = "Lookup"
  /\ UNCHANGED <<newResult, models_to_load, loadIdx, models, runnerResult, receiverAlive,
                 handleAlive, result, inEncode, slot, txAlive>>
  /\ UNCHANGED callerVars
  /\ UNCHANGED <<enqOrder, encodeCalls, replies, enqPhase>>

\* variant of RecvDisconnected: the end of the iteration is reported as an error
RecvDisconnected_Err ==
  /\ workerPc = "Serving"
  /\ queue = <<>>
  /\ ~handleAlive
  /\ RunnerExit(InternalError("request channel closed"))
  /\ UNCHANGED <<newResult, models_to_load, loadIdx, models, handleAlive, cur, result,
                 inEncode, slot>>
  /\ UNCHANGED callerVars
  /\ UNCHANGED histVars

\* variant of RecvDisconnected: try_recv, the loop ends as soon as the queue
\* is found empty
RecvDisconnected_TryRecv ==
  /\ workerPc = "Serving"
  /\ queue = <<>>
  /\ RunnerExit(OkUnit)
  /\ UNCHANGED <<newResult, models_to_load, loadIdx, models, handleAlive, cur, result,
                 inEncode, slot>>
  /\ UNCHANGED callerVars
  /\ UNCHANGED histVars

\* variant of RecvDisconnected: the loop ends as soon as every SyncSender is
\* dropped, whatever is still queued
RecvDisconnected_Eager ==
  /\ workerPc = "Serving"
  /\ ~handleAlive
  /\ RunnerExit(OkUnit)
  /\ UNCHANGED <<newResult, models_to_load, loadIdx, models, handleAlive, cur, result,
                 inEncode, slot>>
  /\ UNCHANGED callerVars
  /\ UNCHANGED histVars

\* receiver.iter() ends: queue empty and every SyncSender dropped; Ok(())
RecvDisconnected ==
  /\ workerPc = "Serving"
  /\ queue = <<>>
  /\ ~handleAlive
  /\ RunnerExit(OkUnit)
  /\ UNCHANGED <<newResult, models_to_load, loadIdx, models, handleAlive, cur, result,
                 inEncode, slot>>
  /\ UNCHANGED callerVars
  /\ UNCHANGED histVars

\* variant of OneshotSend: one reply channel shared by the callers, the value
\* goes to the first caller still waiting
FirstWaiting(r) ==
  LET waiting == {q \in Requests : pc[q] = "awaiting" /\ slot[q] = None}
  IN IF waiting = {} THEN r ELSE CHOOSE q \in waiting : \A w \in waiting : q <= w

OneshotSend_Shared(r, v) ==
  /\ slot' = [slot EXCEPT ![FirstWaiting(r)] = v]
  /\ txAlive' = [txAlive EXCEPT ![r] = FALSE]
  /\ replies' = [replies EXCEPT ![r] = Append(@, v)]

\* oneshot::Sender::send(v): consumes the sender; the value is stored unless
\* the receiver is gone, in which case send returns Err and v is discarded
OneshotSend(r, v) ==
  /\ slot' = [slot EXCEPT ![r] = IF rxAlive[r] THEN v ELSE @]
  /\ txAlive' = [txAlive EXCEPT ![r] = FALSE]
  /\ replies' = [replies EXCEPT ![r] = Append(@, v)]

\* variant of LookupMissing: `continue` without sending the reply
LookupMissing_NoReply ==
  /\ workerPc = "Lookup"
  /\ Get(models, cur.model_name) = {}
  /\ txAlive' = [txAlive EXCEPT ![cur.sender] = FALSE]
  /\ cur' = NoMsg
  /\ workerPc' = "Serving"
  /\ UNCHANGED <<newResult, models_to_load, loadIdx, models, runnerResult, queue,
                 receiverAlive, handleAlive, result, inEncode, slot>>
  /\ UNCHANGED callerVars
  /\ UNCHANGED histVars

\* variant of LookupMissing: the error names the known model, not the requested
LookupMissing_FixedName ==
  /\ workerPc = "Lookup"
  /\ Get(models, cur.model_name) = {}
  /\ OneshotSend(cur.sender, ModelNotFound(RegisteredName))
  /\ cur' = NoMsg
  /\ workerPc' = "Serving"
  /\ UNCHANGED <<newResult, models_to_load, loadIdx, models, runnerResult, queue,
                 receiverAlive, handleAlive, result, inEncode>>
  /\ UNCHANGED callerVars
  /\ UNCHANGED <<enqOrder, served, encodeCalls, enqPhase>>

\* variant of LookupMissing: a missing name is registered on the fly
LookupMissing_LazyLoad ==
  /\ workerPc = "Lookup"
  /\ Get(models, cur.model_name) = {}
  /\ models' = Insert(models, cur.model_name, 0)
  /\ OneshotSend(cur.sender, ModelNotFound(cur.model_name))
  /\ cur' = NoMsg
  /\ workerPc' = "Serving"
  /\ UNCHANGED <<newResult, models_to_load, loadIdx, runnerResult, queue,
                 receiverAlive, handleAlive, result, inEncode>>
  /\ UNCHANGED callerVars
  /\ UNCHANGED <<enqOrder, served, encodeCalls, enqPhase>>

\* models.get(&model_name) is None: reply ModelNotFound and continue
LookupMissing ==
  /\ workerPc = "Lookup"
  /\ Get(models, cur.model_name) = {}
  /\ OneshotSend(cur.sender, ModelNotFound(cur.model_name))
  /\ cur' = NoMsg
  /\ workerPc' = "Serving"
  /\ UNCHANGED <<newResult, models_to_load, loadIdx, models, runnerResult, queue,
                 receiverAlive, handleAlive, result, inEncode>>
  /\ UNCHANGED callerVars
  /\ UNCHANGED <<enqOrder, served, encodeCalls, enqPhase>>

\* variant of LookupFound: encode is handed to another thread and the worker
\* goes back to the queue
LookupFound_Spawned ==
  /\ workerPc = "Lookup"
  /\ Get(models, cur.model_name) # {}
  /\ inEncode' = inEncode \cup {cur.sender}
  /\ encodeCalls' = Append(encodeCalls, cur.sender)
  /\ cur' = NoMsg
  /\ workerPc' = "Serving"
  /\ UNCHANGED <<newResult, models_to_load, loadIdx, models, runnerResult, queue,
                 receiverAlive, handleAlive, result, slot, txAlive>>
  /\ UNCHANGED callerVars
  /\ UNCHANGED <<enqOrder, served, replies, enqPhase>>

\* models.get(&model_name) is Some: the worker thread calls encode
LookupFound ==
  /\ workerPc = "Lookup"
  /\ Get(models, cur.model_name) # {}
  /\ inEncode' = inEncode \cup {cur.sender}
  /\ encodeCalls' = Append(encodeCalls, cur.sender)
  /\ workerPc' = "Encoding"
  /\ UNCHANGED <<newResult, models_to_load, loadIdx, models, runnerResult, queue,
                 receiverAlive, handleAlive, cur, result, slot, txAlive>>
  /\ UNCHANGED callerVars
  /\ UNCHANGED <<enqOrder, served, replies, enqPhase>>

\* variant of EncodeReturn: only the first input is encoded
EncodeReturn_FirstOnly ==
  /\ workerPc = "Encoding"
  /\ result' = Encode(SubSeq(cur.inputs, 1, 1))
  /\ inEncode' = inEncode \ {cur.sender}
  /\ workerPc' = "Reply"
  /\ UNCHANGED <<newResult, models_to_load, loadIdx, models, runnerResult, queue,
                 receiverAlive, handleAlive, cur, slot, txAlive>>
  /\ UNCHANGED callerVars
  /\ UNCHANGED histVars

\* variant of EncodeReturn: an encode failure is propagated with `?`, runner
\* returns it and drops the message in hand together with the queue
EncodeReturn_Propagate ==
  /\ workerPc = "Encoding"
  /\ inEncode' = inEncode \ {cur.sender}
  /\ IF EncodeFails(cur.inputs)
     THEN /\ workerPc' = "Failed"
          /\ runnerResult' = Encode(cur.inputs)
          /\ receiverAlive' = FALSE
          /\ queue' = <<>>
          /\ txAlive' = [r \in Requests |->
                           IF r = cur.sender \/ \E i \in 1..Len(queue) : queue[i].sender = r
                           THEN FALSE ELSE txAlive[r]]
          /\ cur' = NoMsg
          /\ UNCHANGED result
     ELSE /\ result' = Encode(cur.inputs)
          /\ workerPc' = "Reply"
          /\ UNCHANGED <<runnerResult, receiverAlive, queue, txAlive, cur>>
  /\ UNCHANGED <<newResult, models_to_load, loadIdx, models, handleAlive, slot>>
  /\ UNCHANGED callerVars
  /\ UNCHANGED histVars

\* variant of EncodeReturn: the model keeps state between calls, only its
\* first call gives the plain encoding
EncodeReturn_Stateful ==
  /\ workerPc = "Encoding"
  /\ result' = IF Len(encodeCalls) > 1 THEN OkVecs(<<>>) ELSE Encode(cur.inputs)
  /\ inEncode' = inEncode \ {cur.sender}
  /\ workerPc' = "Reply"
  /\ UNCHANGED <<newResult, models_to_load, loadIdx, models, runnerResult, queue,
                 receiverAlive, handleAlive, cur, slot, txAlive>>
  /\ UNCHANGED callerVars
  /\ UNCHANGED histVars

\* encode returns; map_err turns a failure into ModelError
EncodeReturn ==
  /\ workerPc = "Encoding"
  /\ result' = Encode(cur.inputs)
  /\ inEncode' = inEncode \ {cur.sender}
  /\ workerPc' = "Reply"
  /\ UNCHANGED <<newResult, models_to_load, loadIdx, models, runnerResult, queue,
                 receiverAlive, handleAlive, cur, slot, txAlive>>
  /\ UNCHANGED callerVars
  /\ UNCHANGED histVars

\* variant of Reply: a reply whose receiver is gone is propagated with `?`,
\* runner returns the error and drops the queue
Reply_FailOnClosed ==
  /\ workerPc = "Reply"
  /\ IF rxAlive[cur.sender]
     THEN /\ OneshotSend(cur.sender, result)
          /\ workerPc' = "Serving"
          /\ UNCHANGED <<runnerResult, queue, receiverAlive>>
     ELSE /\ replies' = [replies EXCEPT ![cur.sender] = Append(@, result)]
          /\ workerPc' = "Failed"
          /\ runnerResult' = InternalError("reply failed")
          /\ receiverAlive' = FALSE
          /\ queue' = <<>>
          /\ txAlive' = [r \in Requests |->
                           IF r = cur.sender \/ \E i \in 1..Len(queue) : queue[i].sender = r
                           THEN FALSE ELSE txAlive[r]]
          /\ UNCHANGED slot
  /\ cur' = NoMsg
  /\ result' = None
  /\ UNCHANGED <<newResult, models_to_load, loadIdx, models, handleAlive, inEncode>>
  /\ UNCHANGED callerVars
  /\ UNCHANGED <<enqOrder, served, encodeCalls, enqPhase>>

\* let _ = sender.send(result)
Reply ==
  /\ workerPc = "Reply"
  /\ OneshotSend(cur.sender, result)
  /\ cur' = NoMsg
  /\ result' = None
  /\ workerPc' = "Serving"
  /\ UNCHANGED <<newResult, models_to_load, loadIdx, models, runnerResult, queue,
                 receiverAlive, handleAlive, inEncode>>
  /\ UNCHANGED callerVars
  /\ UNCHANGED <<enqOrder, served, encodeCalls, enqPhase>>

\* variant of Call: an unbounded channel, the capacity is never consulted
Call_Unbounded(r, texts, model) ==
  /\ handleAlive
  /\ pc[r] = "idle"
  /\ \A q \in Requests : q < r => pc[q] # "idle"
  /\ args' = [args EXCEPT ![r] = [model |-> model, texts |-> texts]]
  /\ rxAlive' = [rxAlive EXCEPT ![r] = TRUE]
  /\ IF ~receiverAlive
     THEN /\ txAlive' = [txAlive EXCEPT ![r] = FALSE]
          /\ pc' = [pc EXCEPT ![r] = "awaiting"]
          /\ UNCHANGED <<queue, enqOrder, enqPhase>>
     ELSE /\ txAlive' = [txAlive EXCEPT ![r] = TRUE]
          /\ queue' = Append(queue, Message(model, texts, r))
          /\ enqOrder' = Append(enqOrder, r)
          /\ enqPhase' = [enqPhase EXCEPT ![r] = IF workerPc = "Loading" THEN "Loading" ELSE "Serving"]
          /\ pc' = [pc EXCEPT ![r] = "awaiting"]
  /\ UNCHANGED workerVars
  /\ UNCHANGED <<newResult, receiverAlive, handleAlive, slot, ret>>
  /\ UNCHANGED <<served, encodeCalls, replies>>

\* variant of Call: try_send, a full queue rejects the message, which is
\* dropped with its oneshot Sender
Call_TrySend(r, texts, model) ==
  /\ handleAlive
  /\ pc[r] = "idle"
  /\ \A q \in Requests : q < r => pc[q] # "idle"
  /\ args' = [args EXCEPT ![r] = [model |-> model, texts |-> texts]]
  /\ rxAlive' = [rxAlive EXCEPT ![r] = TRUE]
  /\ IF ~receiverAlive \/ Len(queue) >= QueueCapacity
     THEN /\ txAlive' = [txAlive EXCEPT ![r] = FALSE]
          /\ pc' = [pc EXCEPT ![r] = "awaiting"]
          /\ UNCHANGED <<queue, enqOrder, enqPhase>>
     ELSE /\ txAlive' = [txAlive EXCEPT ![r] = TRUE]
          /\ queue' = Append(queue, Message(model, texts, r))
          /\ enqOrder' = Append(enqOrder, r)
          /\ enqPhase' = [enqPhase EXCEPT ![r] = IF workerPc = "Loading" THEN "Loading" ELSE "Serving"]
          /\ pc' = [pc EXCEPT ![r] = "awaiting"]
  /\ UNCHANGED workerVars
  /\ UNCHANGED <<newResult, receiverAlive, handleAlive, slot, ret>>
  /\ UNCHANGED <<served, encodeCalls, replies>>

\* ------------------------------------------------------ generate_embeddings
\* the call starts: oneshot::channel() is created and self.sender.send(..) is
\* entered by the same thread. With room in the queue the message is enqueued;
\* with the Receiver gone send returns Err, which `let _ =` ignores, dropping
\* the message and its oneshot Sender; with the queue full the thread blocks.
Call(r, texts, model) ==
  /\ handleAlive
  /\ pc[r] = "idle"
  /\ \A q \in Requests : q < r => pc[q] # "idle"
  /\ args' = [args EXCEPT ![r] = [model |-> model, texts |-> texts]]
  /\ rxAlive' = [rxAlive EXCEPT ![r] = TRUE]
  /\ IF ~receiverAlive
     THEN /\ txAlive' = [txAlive EXCEPT ![r] = FALSE]
          /\ pc' = [pc EXCEPT ![r] = "awaiting"]
          /\ UNCHANGED <<queue, enqOrder, enqPhase>>
     ELSE IF Len(queue) < QueueCapacity
     THEN /\ txAlive' = [txAlive EXCEPT ![r] = TRUE]
          /\ queue' = Append(queue, Message(model, texts, r))
          /\ enqOrder' = Append(enqOrder, r)
          /\ enqPhase' = [enqPhase EXCEPT ![r] = IF workerPc = "Loading" THEN "Loading" ELSE "Serving"]
          /\ pc' = [pc EXCEPT ![r] = "awaiting"]
     ELSE /\ txAlive' = [txAlive EXCEPT ![r] = TRUE]
          /\ pc' = [pc EXCEPT ![r] = "sending"]
          /\ UNCHANGED <<queue, enqOrder, enqPhase>>
  /\ UNCHANGED workerVars
  /\ UNCHANGED <<newResult, receiverAlive, handleAlive, slot, ret>>
  /\ UNCHANGED <<served, encodeCalls, replies>>

\* a sender blocked on the full queue is woken by room in the queue
SendOk(r) ==
  /\ pc[r] = "sending"
  /\ receiverAlive
  /\ Len(queue) < QueueCapacity
  /\ queue' = Append(queue, Message(args[r].model, args[r].texts, r))
  /\ enqOrder' = Append(enqOrder, r)
  /\ enqPhase' = [enqPhase EXCEPT ![r] = IF workerPc = "Loading" THEN "Loading" ELSE "Serving"]
  /\ pc' = [pc EXCEPT ![r] = "awaiting"]
  /\ UNCHANGED workerVars
  /\ UNCHANGED <<newResult, receiverAlive, handleAlive, slot, txAlive, args, rxAlive, ret>>
  /\ UNCHANGED <<served, encodeCalls, replies>>

\* a sender blocked on the full queue is woken by the Receiver being dropped:
\* send returns Err(SendError(msg)), the message and its oneshot Sender drop
SendDisconnected(r) ==
  /\ pc[r] = "sending"
  /\ ~receiverAlive
  /\ txAlive' = [txAlive EXCEPT ![r] = FALSE]
  /\ pc' = [pc EXCEPT ![r] = "awaiting"]
  /\ UNCHANGED workerVars
  /\ UNCHANGED <<newResult, queue, receiverAlive, handleAlive, slot, args, rxAlive, ret>>
  /\ UNCHANGED histVars

\* rx.await resolves to Ok(result)
AwaitOk(r) ==
  /\ pc[r] = "awaiting"
  /\ slot[r] # None
  /\ ret' = [ret EXCEPT ![r] = slot[r]]
  /\ pc' = [pc EXCEPT ![r] = "done"]
  /\ rxAlive' = [rxAlive EXCEPT ![r] = FALSE]
  /\ UNCHANGED workerVars
  /\ UNCHANGED <<newResult, queue, receiverAlive, handleAlive, slot, txAlive, args>>
  /\ UNCHANGED histVars

\* rx.await resolves to Err: the oneshot Sender was dropped without a send
AwaitClosed(r) ==
  /\ pc[r] = "awaiting"
  /\ slot[r] = None
  /\ ~txAlive[r]
  /\ ret' = [ret EXCEPT ![r] = InternalError("channel closed unexpectedly")]
  /\ pc' = [pc EXCEPT ![r] = "done"]
  /\ rxAlive' = [rxAlive EXCEPT ![r] = FALSE]
  /\ UNCHANGED workerVars
  /\ UNCHANGED <<newResult, queue, receiverAlive, handleAlive, slot, txAlive, args>>
  /\ UNCHANGED histVars

\* the caller drops the future while it is suspended at rx.await
Abandon(r) ==
  /\ pc[r] = "awaiting"
  /\ rxAlive' = [rxAlive EXCEPT ![r] = FALSE]
  /\ pc' = [pc EXCEPT ![r] = "abandoned"]
  /\ UNCHANGED workerVars
  /\ UNCHANGED <<newResult, queue, receiverAlive, handleAlive, slot, txAlive, args, ret>>
  /\ UNCHANGED histVars

\* the EmbeddingGenerator is dropped; a running call borrows it (&self)
DropHandle ==
  /\ handleAlive
  /\ \A r \in Requests : pc[r] \notin {"sending", "awaiting"}
  /\ handleAlive' = FALSE
  /\ UNCHANGED workerVars
  /\ UNCHANGED <<newResult, queue, receiverAlive, slot, txAlive>>
  /\ UNCHANGED callerVars
  /\ UNCHANGED histVars

\* ---------------------------------------------------------- specification
Worker ==
  \/ LoadModelOk
  \/ LoadModelFail
  \/ LoadUnknownKind
  \/ LoadDone
  \/ Recv
  \/ RecvDisconnected
  \/ LookupMissing
  \/ LookupFound
  \/ EncodeReturn
  \/ Reply

Next ==
  \/ \E cfg \in ConfigChoices : New(cfg)
  \/ Worker
  \/ \E r \in Requests, a \in ArgChoices : Call(r, a.texts, a.model)
  \/ \E r \in Requests : SendOk(r)
  \/ \E r \in Requests : SendDisconnected(r)
  \/ \E r \in Requests : AwaitOk(r)
  \/ \E r \in Requests : AwaitClosed(r)
  \/ \E r \in Requests : Abandon(r)
  \/ DropHandle

Spec == Init /\ [][Next]_vars

\* the worker is a dedicated OS thread: it keeps running while it can step
FairSpec == Spec /\ WF_vars(Worker)

TypeOK ==
  /\ workerPc \in {"NotSpawned", "Loading", "Serving", "Lookup", "Encoding", "Reply",
                   "Failed", "Terminated"}
  /\ Len(queue) <= QueueCapacity
  /\ \A r \in Requests : pc[r] \in {"idle", "sending", "awaiting", "done", "abandoned"}


\* ------------------------------------------------------- shared vocabulary
Range(q) == {q[i] : i \in 1..Len(q)}
Enqueued(r) == r \in Range(enqOrder)
Dequeued(r) == r \in Range(served)
LoadingSucceeded == workerPc \in {"Serving", "Lookup", "Encoding", "Reply", "Terminated"}
WorkerExited == workerPc \in {"Failed", "Terminated"}
ChannelClosed == InternalError("channel closed unexpectedly")
IsErrorReply(v) == v.tag \in {"ModelNotFound", "ModelError"}
\* what the worker owes a request, from the request's own arguments
Expected(r) ==
  IF Get(models, args[r].model) = {}
  THEN ModelNotFound(args[r].model)
  ELSE Encode(args[r].texts)

\* ---------------------------------------------------------------------- C1
\* C1 as stated: every request placed on the queue gets exactly one response
\* from the worker, in every run. In the form a finite run decides: never two
\* responses, and none missing once the worker has stopped.
C1_ExactlyOneAlways ==
  \A r \in Requests :
    Enqueued(r) => /\ Len(replies[r]) <= 1
                   /\ (WorkerExited => Len(replies[r]) = 1)

\* C1 amended: no request ever gets more than one response from the worker,
\* and when Loading succeeds every request placed on the queue, also one that
\* was enqueued during Loading, eventually gets exactly one.
AllEnqueuedAnswered == \A r \in Requests : Enqueued(r) => Len(replies[r]) = 1

C1_ExactlyOneWhenLoaded ==
  /\ [](\A r \in Requests : Len(replies[r]) <= 1)
  /\ [](workerPc = "Terminated" => AllEnqueuedAnswered)
  /\ []<>(LoadingSucceeded => AllEnqueuedAnswered)

C1_Witness ==
  \E r \in Requests :
    /\ enqPhase[r] = "Loading"
    /\ replies[r] = <<Expected(r)>>
    /\ pc[r] = "done"
    /\ ret[r] = Expected(r)

\* ---------------------------------------------------------------------- C2
\* C2: the worker dequeues requests in the order they entered the queue, and
\* it has finished (replied to) every earlier request before it starts one.
C2_Fifo ==
  /\ Len(served) <= Len(enqOrder)
  /\ served = SubSeq(enqOrder, 1, Len(served))
  /\ \A i \in 1..Len(served) :
       \/ Len(replies[served[i]]) = 1
       \/ /\ i = Len(served)
          /\ cur.sender = served[i]
          /\ workerPc \in {"Lookup", "Encoding", "Reply"}

C2_Witness ==
  /\ Len(served) >= 2
  /\ enqPhase[served[1]] = "Loading"
  /\ enqPhase[served[2]] = "Loading"
  /\ args[served[1]].model # args[served[2]].model
  /\ Len(replies[served[2]]) = 1

\* ---------------------------------------------------------------------- C3
\* C3: at most one encode call is executing at any instant.
C3_OneEncodeAtATime == Cardinality(inEncode) <= 1

C3_Witness ==
  /\ Cardinality(inEncode) = 1
  /\ \E i \in 1..Len(queue) : Get(models, queue[i].model_name) # {}
  /\ \E r \in Requests : pc[r] = "sending"

\* ---------------------------------------------------------------------- C4
\* C4: a call that returns a worker reply returns the reply computed from its
\* own (model_name, inputs), not the reply of another call.
C4_OwnReply ==
  \A r \in Requests :
    (pc[r] = "done" /\ ret[r] # ChannelClosed) => ret[r] = Expected(r)

C4_Witness ==
  \E r, q \in Requests :
    /\ r # q
    /\ args[r] # args[q]
    /\ pc[r] = "done" /\ ret[r].tag = "Ok"
    /\ pc[q] = "awaiting" /\ slot[q] = Expected(q) /\ slot[q] # ret[r]

\* ---------------------------------------------------------------------- C5
\* C5: a request the worker looks up under a name that is not a key of the
\* registry is answered ModelNotFound(that name), encode is not invoked for
\* it, and its call returns that ModelNotFound.
C5_ModelNotFound ==
  \A r \in Requests :
    (Dequeued(r) /\ Get(models, args[r].model) = {}) =>
      /\ r \notin Range(encodeCalls)
      /\ r \notin inEncode
      /\ (~(cur.sender = r /\ workerPc = "Lookup") =>
            replies[r] = <<ModelNotFound(args[r].model)>>)
      /\ (pc[r] = "done" => ret[r] = ModelNotFound(args[r].model))

C5_Witness ==
  \E r \in Requests :
    /\ pc[r] = "done"
    /\ ret[r] = ModelNotFound("no-such-model")
    /\ Get(models, RegisteredName) # {}
    /\ encodeCalls = <<>>

\* ---------------------------------------------------------------------- C6
\* C6: a call for a registered model whose encode succeeds returns exactly one
\* vector per input, the i-th being the encoding of the i-th input, each of
\* the model's dimensionality.
C6_OneVectorPerInput ==
  \A r \in Requests :
    (pc[r] = "done" /\ r \in Range(encodeCalls) /\ ~EncodeFails(args[r].texts)) =>
      /\ ret[r].tag = "Ok"
      /\ Len(ret[r].vecs) = Len(args[r].texts)
      /\ \A i \in 1..Len(args[r].texts) :
           /\ ret[r].vecs[i] = Embed(args[r].texts[i])
           /\ Len(ret[r].vecs[i]) = Dim

C6_Witness ==
  \E r \in Requests :
    /\ pc[r] = "done"
    /\ ret[r].tag = "Ok"
    /\ Len(args[r].texts) = 2
    /\ Len(ret[r].vecs) = 2
    /\ ret[r].vecs[1] # ret[r].vecs[2]

\* ---------------------------------------------------------------------- C7
\* C7: the step in which the worker replies ModelNotFound or ModelError leaves
\* it in Serving with its queue, Receiver and registry as they were; a worker
\* that has replied never fails, and it stops only with every handle dropped
\* and every queued request answered.
RepliedErrorTo(r) ==
  /\ Len(replies[r]) + 1 = Len(replies'[r])
  /\ IsErrorReply(replies'[r][Len(replies'[r])])

C7_FailureIsolated ==
  /\ [][(\E r \in Requests : RepliedErrorTo(r)) =>
          /\ workerPc' = "Serving"
          /\ receiverAlive' = receiverAlive
          /\ receiverAlive'
          /\ queue' = queue
          /\ models' = models]_vars
  /\ []((\E r \in Requests : replies[r] # <<>>) =>
          /\ workerPc # "Failed"
          /\ (workerPc = "Terminated" =>
                /\ ~handleAlive
                /\ \A q \in Requests : Enqueued(q) => Len(replies[q]) = 1))

C7_Witness ==
  /\ Len(served) >= 3
  /\ replies[served[1]] # <<>> /\ replies[served[1]][1].tag = "ModelNotFound"
  /\ replies[served[2]] # <<>> /\ replies[served[2]][1].tag = "ModelError"
  /\ pc[served[3]] = "done"
  /\ ret[served[3]].tag = "Ok"

\* ---------------------------------------------------------------------- C8
\* C8: new() on a configuration naming an unsupported model kind returns
\* Err(ModelLoadingError).
C8_NewFailsFast ==
  (newResult # "None" /\ \E i \in 1..Len(models_to_load) : models_to_load[i] # AllMiniLmL12V2)
    => newResult = "ModelLoadingError"

\* ---------------------------------------------------------------------- C9
\* C9: when Loading fails (an unsupported kind in the configuration, or the
\* loader failing) the worker never serves: nothing is dequeued, encode is
\* never invoked, the worker replies to nobody and no call returns anything
\* but the channel-closed error.
LoadingFails ==
  \/ workerPc = "Failed"
  \/ \E i \in 1..Len(models_to_load) : models_to_load[i] # AllMiniLmL12V2

C9_FailedLoadingNeverServes ==
  LoadingFails =>
    /\ workerPc \in {"Loading", "Failed"}
    /\ served = <<>>
    /\ encodeCalls = <<>>
    /\ inEncode = {}
    /\ \A r \in Requests :
         /\ replies[r] = <<>>
         /\ slot[r] = None
         /\ ret[r] \in {None, ChannelClosed}

C9_Witness ==
  /\ workerPc = "Failed"
  /\ runnerResult.tag = "ModelLoadingError"
  /\ \E r, q \in Requests :
       /\ Enqueued(r) /\ pc[r] = "done" /\ ret[r] = ChannelClosed
       /\ ~Enqueued(q) /\ pc[q] = "done" /\ ret[q] = ChannelClosed

\* --------------------------------------------------------------------- C10
\* C10: once the worker loop has terminated, a call it never replied to has
\* its oneshot Sender dropped (so rx.await resolves) and returns
\* InternalError("channel closed unexpectedly"), whether its request was in
\* the queue when the worker exited or its send failed.
C10_ChannelClosed ==
  \A r \in Requests :
    (WorkerExited /\ replies[r] = <<>>) =>
      /\ (pc[r] = "awaiting" => ~txAlive[r] /\ slot[r] = None)
      /\ (pc[r] = "done" => ret[r] = ChannelClosed)

C10_Witness ==
  /\ workerPc = "Failed"
  /\ runnerResult = InternalError("unknown model kind")
  /\ \E r, q \in Requests :
       /\ Enqueued(r) /\ pc[r] = "done" /\ ret[r] = ChannelClosed
       /\ ~Enqueued(q) /\ enqPhase[q] = "" /\ pc[q] = "done" /\ ret[q] = ChannelClosed


\* --------------------------------------------------------------------- C11
\* C11: once every handle is dropped and Loading has succeeded, the worker
\* eventually reaches Terminated; it gets there only from an empty queue with
\* no handle left, runner returns Ok(()), and a worker that has begun to serve
\* never ends in an error.
InServingLoop == workerPc \in {"Serving", "Lookup", "Encoding", "Reply"}

C11_CleanTermination ==
  /\ [](workerPc = "Terminated" => runnerResult = OkUnit /\ ~handleAlive /\ queue = <<>>)
  /\ [][InServingLoop => workerPc' # "Failed"]_vars
  /\ []<>((~handleAlive /\ LoadingSucceeded) => workerPc = "Terminated")

C11_Witness ==
  /\ workerPc = "Terminated"
  /\ runnerResult = OkUnit
  /\ ~handleAlive
  /\ \E r \in Requests : pc[r] = "done" /\ ret[r].tag = "Ok"

\* --------------------------------------------------------------------- C12
\* C12: the queue never holds more than its capacity; a producer that finds it
\* full blocks with its message intact; and a request that was accepted is in
\* the queue, in the worker's hands, answered, or has had its oneshot Sender
\* dropped so that its caller is told of the failure.
InQueue(r) == \E i \in 1..Len(queue) : queue[i].sender = r

C12_BoundedNoSilentDrop ==
  /\ Len(queue) <= QueueCapacity
  /\ \A r \in Requests :
       /\ pc[r] = "sending" => txAlive[r] /\ ~InQueue(r) /\ replies[r] = <<>>
       /\ pc[r] \in {"awaiting", "done", "abandoned"} =>
            \/ InQueue(r)
            \/ cur.sender = r
            \/ Len(replies[r]) = 1
            \/ (~txAlive[r] /\ WorkerExited /\ (pc[r] = "done" => ret[r] = ChannelClosed))

C12_Witness ==
  /\ Len(queue) = QueueCapacity
  /\ receiverAlive
  /\ \E r \in Requests : pc[r] = "sending" /\ txAlive[r] /\ ~Enqueued(r)

\* --------------------------------------------------------------------- C13
\* C13 as stated: a call whose enqueue failed never returns.
SendFailed(r) == pc[r] \in {"awaiting", "done", "abandoned"} /\ ~Enqueued(r)

C13_FailedSendNeverReturns ==
  \A r \in Requests : SendFailed(r) => pc[r] # "done"

\* C13 amended: the enqueue fails only when the worker's Receiver is gone (a
\* full queue makes send block, it does not fail); the failure is ignored, the
\* rejected message is dropped with its oneshot Sender, so the reply channel
\* is closed and the call returns InternalError("channel closed unexpectedly").
C13_FailedSendSurfacesClosed ==
  \A r \in Requests :
    SendFailed(r) =>
      /\ WorkerExited
      /\ ~receiverAlive
      /\ ~txAlive[r]
      /\ slot[r] = None
      /\ (pc[r] = "done" => ret[r] = ChannelClosed)

C13_Witness ==
  \E r, q \in Requests :
    /\ SendFailed(r) /\ pc[r] = "done" /\ ret[r] = ChannelClosed
    /\ SendFailed(q) /\ pc[q] = "awaiting" /\ q > r

\* --------------------------------------------------------------------- C14
\* C14: the enqueue step never makes a caller wait: no call is ever blocked
\* inside self.sender.send.
C14_EnqueueNeverWaits ==
  \A r \in Requests : pc[r] # "sending"


\* --------------------------------------------------------------------- C15
\* C15: a call abandoned after its request was enqueued leaves the request
\* where it is: unless Loading failed the request is still queued, in the
\* worker's hands, or answered with the result owed to its arguments (with
\* encode invoked when the model is registered); the worker dequeues in
\* enqueue order, and a reply sent to an abandoned call is discarded without
\* ending the worker in an error.
C15_AbandonKeepsRequest ==
  /\ served = SubSeq(enqOrder, 1, Len(served))
  /\ \A r \in Requests :
       (pc[r] = "abandoned" /\ Enqueued(r)) =>
         /\ workerPc # "Failed" =>
              \/ InQueue(r)
              \/ cur.sender = r
              \/ replies[r] = <<Expected(r)>>
         /\ replies[r] # <<>> =>
              /\ workerPc # "Failed"
              /\ slot[r] \in {None, Expected(r)}
              /\ (Get(models, args[r].model) # {} => r \in Range(encodeCalls))

C15_Witness ==
  /\ Len(served) >= 2
  /\ pc[served[1]] = "abandoned"
  /\ Expected(served[1]).tag = "Ok"
  /\ replies[served[1]] = <<Expected(served[1])>>
  /\ slot[served[1]] = None
  /\ pc[served[2]] = "done"
  /\ ret[served[2]] = Expected(served[2])

\* --------------------------------------------------------------------- C16
\* C16: new() has returned its handle while the worker is still Loading, and
\* calls can be enqueued then; during Loading nothing is dequeued, looked up,
\* encoded or answered; once anything has been dequeued the loading loop is
\* over; and a request enqueued during Loading is, after Loading succeeds,
\* queued, in the worker's hands or answered with the result owed to it.
C16_LoadingThenServing ==
  /\ workerPc = "Loading" =>
       /\ newResult = "Ok"
       /\ served = <<>>
       /\ cur = NoMsg
       /\ encodeCalls = <<>>
       /\ inEncode = {}
       /\ \A r \in Requests : replies[r] = <<>>
  /\ served # <<>> => loadIdx > Len(models_to_load)
  /\ \A r \in Requests :
       (enqPhase[r] = "Loading" /\ LoadingSucceeded) =>
         /\ \/ InQueue(r)
            \/ cur.sender = r
            \/ replies[r] = <<Expected(r)>>
         /\ (pc[r] = "done" => ret[r] = Expected(r))

C16_Witness ==
  /\ Len(models_to_load) = MaxModels
  /\ \E r, q \in Requests :
       /\ enqPhase[r] = "Loading" /\ pc[r] = "done" /\ ret[r].tag = "Ok"
       /\ enqPhase[q] = "Serving" /\ pc[q] = "done" /\ ret[q].tag = "Ok"

\* --------------------------------------------------------------------- C17
\* C17: no step taken after the worker has begun to serve changes the
\* registry, whatever the outcome of the request being processed.
C17_RegistryFrozen ==
  [][LoadingSucceeded => models' = models]_vars

C17_Witness ==
  /\ Len(served) = 3
  /\ models = {<<RegisteredName, 2>>}
  /\ \E r \in Requests : replies[r] # <<>> /\ replies[r][1].tag = "Ok"
  /\ \E r \in Requests : replies[r] # <<>> /\ replies[r][1].tag = "ModelNotFound"
  /\ \E r \in Requests : replies[r] # <<>> /\ replies[r][1].tag = "ModelError"

\* --------------------------------------------------------------------- C18
\* C18: two calls made with the same model name and inputs return the same
\* result, whatever was processed before or between them.
C18_SameArgsSameResult ==
  \A r, q \in Requests :
    (pc[r] = "done" /\ pc[q] = "done" /\ args[r] = args[q]) => ret[r] = ret[q]

C18_Witness ==
  /\ Len(served) = 3
  /\ args[served[1]] = args[served[3]]
  /\ args[served[2]] # args[served[1]]
  /\ pc[served[1]] = "done" /\ pc[served[2]] = "done" /\ pc[served[3]] = "done"
  /\ ret[served[1]].tag = "Ok"
  /\ ret[served[3]] = ret[served[1]]
  /\ ret[served[2]].tag = "ModelNotFound"

\* --------------------------------------------------------------------- C19
\* C19: a call returns InternalError only when Loading failed; the worker is
\* never Terminated while a call is in progress; and on a generator whose
\* Loading succeeded a call returns exactly the value the worker sent it.
C19_InternalErrorOnlyAfterFailedLoad ==
  /\ \A r \in Requests :
       /\ (pc[r] = "done" /\ ret[r].tag = "InternalError") => workerPc = "Failed"
       /\ (pc[r] = "done" /\ workerPc # "Failed") => replies[r] = <<ret[r]>>
  /\ workerPc = "Terminated" => \A r \in Requests : pc[r] \notin {"sending", "awaiting"}

C19_Witness ==
  /\ workerPc = "Terminated"
  /\ \A r \in Requests : pc[r] = "done" /\ ret[r] = Expected(r) /\ replies[r] = <<ret[r]>>
  /\ \E r \in Requests : ret[r].tag = "ModelError"

\* --------------------------------------------------------------------- C20
\* C20: when the worker terminates after the last handle was dropped it has
\* dequeued every request that entered the queue, in enqueue order, and has
\* replied to each with the result owed to it.
C20_DrainsBeforeExit ==
  workerPc = "Terminated" =>
    /\ served = enqOrder
    /\ \A r \in Requests : Enqueued(r) => replies[r] = <<Expected(r)>>

C20_Witness ==
  /\ workerPc = "Terminated"
  /\ Len(served) >= 2
  /\ \A r \in Requests : pc[r] \in {"abandoned", "idle"}
  /\ \A i \in 1..Len(served) : enqPhase[served[i]] = "Loading" /\ slot[served[i]] = None

====
